---- MODULE Spec2Model ----
(***************************************************************************)
(* Model of pkg/controllers/backup/controller.go: the backup pipeline      *)
(* OnBackupChange -> gatherResources -> gatherResourcesForGroupVersion ->  *)
(* gatherObjectsForResource -> writeBackupObjects -> writeToBackup.        *)
(*                                                                         *)
(* Go values are modelled as follows.                                      *)
(*   map[string]interface{}  a function whose DOMAIN is the set of keys    *)
(*   []T                     a sequence                                    *)
(*   error                   a string, "nil" for no error                  *)
(*   the file system         a function from path strings to entries       *)
(***************************************************************************)
EXTENDS Integers, Sequences, FiniteSets, TLC

VARIABLES
    pc,             \* position of the handler
    run,            \* number of the current trigger of OnBackupChange
    fs,             \* the file system: path -> entry
    fs0,            \* fs when the current run started
    calls,          \* capabilities called during the current run
    transformerMap, \* result of common.GetEncryptionTransformers
    filters,        \* template.BackupFilters (the slice gatherResources writes into)
    filters0,       \* template.BackupFilters as the template source returned it
    ind,            \* index of the filter being processed
    filter,         \* the loop's copy of filters[ind]
    resourceList,   \* result of gatherResourcesForGroupVersion for filters[ind]
    resIdx,         \* index of the resource type being processed
    items,          \* resObjects.Items of the current type (objects are mutated in place)
    items0,         \* resObjects.Items as the listing returned them
    queue,          \* filteredObjects, as indices into items
    objIdx,         \* index into queue of the object being written
    gatherErr,      \* the error gatherResources returned ("none" before it returns)
    resolved,       \* resolved[i]: the resourceList computed for filter i in this run
    selected,       \* per (filter, type) selection results of this run
    writeLog,       \* every completed or attempted writeToBackup of this run
    origin,         \* path -> the listed object whose write last created the file
    ret             \* what the caller of OnBackupChange received

vars == <<pc, run, fs, fs0, calls, transformerMap, filters, filters0, ind, filter,
          resourceList, resIdx, items, items0, queue, objIdx, gatherErr, resolved,
          selected, writeLog, origin, ret>>

-----------------------------------------------------------------------------
(* Bounds of the model *)

MaxFilters == 2
MaxRuns == 2

-----------------------------------------------------------------------------
(* Go map helpers *)

Has(m, k) == k \in DOMAIN m
Delete(m, ks) == [k \in DOMAIN m \ ks |-> m[k]]
Put(m, k, v) == [x \in DOMAIN m \cup {k} |-> IF x = k THEN v ELSE m[x]]
EmptyMap == [k \in {} |-> ""]

SeqToSet(s) == {s[i] : i \in 1..Len(s)}

-----------------------------------------------------------------------------
(* The object catalog the discovery and listing capabilities answer from *)

APIResource(name, group, namespaced, verbs) ==
    [Name |-> name, Group |-> group, Namespaced |-> namespaced, Verbs |-> verbs]

\* ServerResourcesForGroupVersion: the APIResources of a group/version,
\* or "error" for one the server does not know.
KnownGroupVersions == {"v1", "example.com/v1"}

ServerResources(groupVersion) ==
    CASE groupVersion = "v1" ->
           << APIResource("bindings", "", TRUE, <<"create">>),
              APIResource("componentstatuses", "", FALSE, <<"get", "list">>),
              APIResource("namespaces", "", FALSE, <<"get", "list", "update", "patch">>),
              APIResource("pods", "", TRUE, <<"get", "list", "update", "patch">>),
              APIResource("secrets", "", TRUE, <<"get", "list", "patch">>),
              APIResource("services", "", TRUE, <<"get", "list", "update">>) >>
      [] groupVersion = "example.com/v1" ->
           << APIResource("widgets", "", TRUE, <<"list", "get", "update">>) >>
      [] OTHER -> <<>>

Volatile(uid) ==
    [uid |-> uid, resourceVersion |-> "7", generation |-> "1",
     creationTimestamp |-> "2020-01-01T00:00:00Z"]

Meta(fields) == [metadata |-> fields]

\* The objects of each resource type, as unstructured documents.
CatalogObjects(groupVersion, resource) ==
    CASE groupVersion = "v1" /\ resource = "services" ->
           << Meta([name |-> "a", namespace |-> "ns1"] @@ Volatile("u1")),
              Meta([name |-> "b", namespace |-> "ns1",
                    labels |-> [app |-> "x"],
                    ownerReferences |-> <<"owner-1">>] @@ Volatile("u2")),
              Meta([name |-> "a", namespace |-> "ns2"] @@ Volatile("u3")) >>
      [] groupVersion = "v1" /\ resource = "secrets" ->
           << Meta([name |-> "c", namespace |-> "ns1",
                    deletionTimestamp |-> "2020-02-02T00:00:00Z",
                    finalizers |-> <<"keep">>] @@ Volatile("u4")),
              Meta([name |-> "d", namespace |-> "ns2",
                    deletionTimestamp |-> "2020-02-02T00:00:00Z"] @@ Volatile("u5")),
              Meta([name |-> "e", namespace |-> "ns1",
                    deletionTimestamp |-> "2020-02-02T00:00:00Z",
                    finalizers |-> <<>>] @@ Volatile("u6")) >>
      [] groupVersion = "v1" /\ resource = "namespaces" ->
           << Meta([name |-> "ns1"] @@ Volatile("u7")),
              Meta([name |-> "ns2", labels |-> [team |-> "t"]]) >>
      [] groupVersion = "v1" /\ resource = "pods" ->
           << Meta([name |-> "p", namespace |-> "ns1"] @@ Volatile("u8")) >>
      [] groupVersion = "v1" /\ resource = "componentstatuses" ->
           << Meta([name |-> "etcd"]) >>
      [] groupVersion = "example.com/v1" /\ resource = "widgets" ->
           << Meta([name |-> "a", namespace |-> "ns1",
                    ownerReferences |-> <<>>] @@ Volatile("u9")),
              Meta([name |-> "b", namespace |-> "ns1",
                    ownerReferences |-> <<"owner-2">>] @@ Volatile("u10")) >>
      [] OTHER -> <<>>

-----------------------------------------------------------------------------
(* regexp.MatchString, tabulated for the patterns the filters below use.    *)
(* RegexLanguage(p) is the set of the catalog's strings that p matches;     *)
(* an unanchored pattern matches any string that contains a match.          *)

Names ==
    {"bindings", "componentstatuses", "namespaces", "pods", "secrets", "services",
     "widgets", "a", "b", "c", "d", "e", "p", "etcd", "ns1", "ns2"}

Malformed(pattern) == pattern \in {"[", "("}

RegexLanguage(pattern) ==
    CASE pattern = "" -> Names
      [] pattern = "." -> Names
      [] pattern = "^(pods|services)$" -> {"pods", "services"}
      [] pattern = "^services$" -> {"services"}
      [] pattern = "^secrets$" -> {"secrets"}
      [] pattern = "^namespaces$" -> {"namespaces"}
      [] pattern = "^a$" -> {"a"}
      [] pattern = "^ns1$" -> {"ns1"}
      [] pattern = "ns" -> {"ns1", "ns2"}
      [] pattern = "s$" -> {"bindings", "componentstatuses", "namespaces", "pods",
                            "secrets", "services", "widgets"}
      [] OTHER -> {}

MatchString(pattern, s) ==
    IF Malformed(pattern)
    THEN [matched |-> FALSE, err |-> "error parsing regexp"]
    ELSE [matched |-> s \in RegexLanguage(pattern), err |-> "nil"]

\* The indices, in order, at which flags is TRUE (a loop that appends the
\* elements passing a test).
Indices(flags) ==
    LET f[i \in 0..Len(flags)] ==
            IF i = 0 THEN <<>>
            ELSE IF flags[i] THEN Append(f[i - 1], i) ELSE f[i - 1]
    IN  f[Len(flags)]

Pick(s, idx) == [k \in 1..Len(idx) |-> s[idx[k]]]

-----------------------------------------------------------------------------
(* Filter resolver *)

canListResource(verbs) == \E i \in 1..Len(verbs) : verbs[i] = "list"

canUpdateResource(verbs) ==
    \E i \in 1..Len(verbs) : verbs[i] = "update" \/ verbs[i] = "patch"

avoidBackupResources == {"pods"}

skipBackup(res) ==
    \/ res.Name \in avoidBackupResources
    \/ ~canListResource(res.Verbs)
    \/ ~canUpdateResource(res.Verbs)

\* h.discoveryClient.ServerResourcesForGroupVersion; discoveryUp = FALSE is a
\* transport failure of the capability.
Discover(groupVersion, discoveryUp) ==
    IF discoveryUp /\ groupVersion \in KnownGroupVersions
    THEN [resources |-> ServerResources(groupVersion), err |-> "nil"]
    ELSE [resources |-> <<>>, err |-> "discovery error"]

gatherResourcesForGroupVersion(f, discoveryUp) ==
    LET d == Discover(f.ApiGroup, discoveryUp)
        Matches(res) == MatchString(f.KindsRegex, res.Name).matched
    IN  IF d.err # "nil" THEN [resourceList |-> <<>>, err |-> d.err]
        ELSE IF f.KindsRegex = "." THEN [resourceList |-> d.resources, err |-> "nil"]
        ELSE IF Len(d.resources) > 0 /\ Malformed(f.KindsRegex)
             THEN [resourceList |-> <<>>,
                   err |-> MatchString(f.KindsRegex, d.resources[1].Name).err]
        ELSE [resourceList |->
                  Pick(d.resources,
                       Indices([j \in 1..Len(d.resources) |-> Matches(d.resources[j])])),
              err |-> "nil"]

\* resolveKinds writing back only the types that pass the eligibility gate.
resolveKindsEligible(f, resList) ==
    LET Eligible(res) == ~skipBackup(res)
        kept == Pick(resList, Indices([j \in 1..Len(resList) |-> Eligible(resList[j])]))
    IN  IF Len(f.Kinds) = 0
        THEN [f EXCEPT !.Kinds = [k \in 1..Len(kept) |-> kept[k].Name]]
        ELSE f

\* gatherResources, lines 114-120: the filter with kinds written back.
resolveKinds(f, resList) ==
    IF Len(f.Kinds) = 0
    THEN [f EXCEPT !.Kinds = [k \in 1..Len(resList) |-> resList[k].Name]]
    ELSE f

\* schema.ParseGroupVersion on the group/versions of the model.
ParseGroupVersion(gv) ==
    CASE gv = "v1" -> [Group |-> "", Version |-> "v1", err |-> "nil"]
      [] gv = "example.com/v1" -> [Group |-> "example.com", Version |-> "v1", err |-> "nil"]
      [] OTHER -> [Group |-> "", Version |-> "", err |-> "unexpected GroupVersion string"]

GroupVersionString(gv) == IF gv.Group = "" THEN gv.Version ELSE gv.Group \o "/" \o gv.Version

-----------------------------------------------------------------------------
(* Object selector *)

\* Lines 182-194: the field selector, as its sequence of terms.
fieldSelectorTerms(res, f) ==
    [k \in 1..Len(f.ResourceNames) |-> <<"metadata.name", f.ResourceNames[k]>>]
    \o (IF res.Namespaced
        THEN [k \in 1..Len(f.Namespaces) |-> <<"metadata.namespace", f.Namespaces[k]>>]
        ELSE <<>>)

\* dr.List: the objects of the type that satisfy every term of the selector.
SatisfiesTerm(obj, term) ==
    CASE term[1] = "metadata.name" -> obj.metadata.name = term[2]
      [] term[1] = "metadata.namespace" ->
            Has(obj.metadata, "namespace") /\ obj.metadata.namespace = term[2]
      [] OTHER -> FALSE

List(gv, res, terms, listUp) ==
    LET all == CatalogObjects(GroupVersionString(gv), res.Name)
        Keep(obj) == \A k \in 1..Len(terms) : SatisfiesTerm(obj, terms[k])
    IN  IF listUp
        THEN [Items |-> Pick(all, Indices([j \in 1..Len(all) |-> Keep(all[j])])),
              err |-> "nil"]
        ELSE [Items |-> <<>>, err |-> "list error"]

\* Lines 203-216: the resourceNameRegex pass over the fetched objects.
nameRegexPass(objs, f) ==
    LET Matches(obj) == MatchString(f.ResourceNameRegex, obj.metadata.name).matched
    IN  IF f.ResourceNameRegex = "" THEN [status |-> "ok", idx |-> <<>>]
        ELSE IF Len(objs) > 0 /\ Malformed(f.ResourceNameRegex)
             THEN [status |-> "error", idx |-> <<>>]
        ELSE [status |-> "ok", idx |-> Indices([j \in 1..Len(objs) |-> Matches(objs[j])])]

\* Lines 217-232: the namespaceRegex pass. metadata["namespace"].(string)
\* panics on an object that has no namespace.
namespaceRegexPass(objs, f) ==
    LET Matches(obj) == MatchString(f.NamespaceRegex, obj.metadata.namespace).matched
        NoNs(obj) == ~Has(obj.metadata, "namespace")
    IN  IF f.NamespaceRegex = "" \/ Len(objs) = 0 THEN [status |-> "ok", idx |-> <<>>]
        ELSE IF NoNs(objs[1]) THEN [status |-> "panic", idx |-> <<>>]
        ELSE IF Malformed(f.NamespaceRegex) THEN [status |-> "error", idx |-> <<>>]
        ELSE IF \E i \in 1..Len(objs) : NoNs(objs[i]) THEN [status |-> "panic", idx |-> <<>>]
        ELSE [status |-> "ok", idx |-> Indices([j \in 1..Len(objs) |-> Matches(objs[j])])]

\* Lines 201-239: filteredObjects (as indices into the fetched objects), the
\* matched namespaces, and the Namespaces of the function's own copy of the filter.
selectObjects(res, f, objs) ==
    LET byName == nameRegexPass(objs, f)
        byNs == namespaceRegexPass(objs, f)
        filteredNs == [k \in 1..Len(byNs.idx) |-> objs[byNs.idx[k]].metadata.namespace]
        none == [status |-> "ok", filteredObjects |-> <<>>, filteredNs |-> <<>>,
                 localNamespaces |-> f.Namespaces]
    IN  IF byName.status # "ok" THEN [none EXCEPT !.status = byName.status]
        ELSE IF byNs.status # "ok" THEN [none EXCEPT !.status = byNs.status]
        ELSE [status |-> "ok",
              filteredObjects |->
                  IF f.NamespaceRegex = "" /\ f.ResourceNameRegex = ""
                  THEN [k \in 1..Len(objs) |-> k]
                  ELSE byName.idx \o byNs.idx,
              filteredNs |-> filteredNs,
              localNamespaces |->
                  IF res.Namespaced /\ Len(filteredNs) > 0
                  THEN f.Namespaces \o filteredNs
                  ELSE f.Namespaces]

-----------------------------------------------------------------------------
(* Classifier and sanitizer *)

OldUIDReferenceLabel == "original-uid"

VolatileFields == {"uid", "resourceVersion", "generation", "creationTimestamp"}

\* Lines 248-253.
skipObject(metadata) ==
    Has(metadata, "deletionTimestamp") /\ ~Has(metadata, "finalizers")

\* sanitize with the uid label replacing the labels the object had.
sanitizeDroppingLabels(metadata) ==
    LET labelled ==
            IF Has(metadata, "uid")
            THEN Put(metadata, "labels", (OldUIDReferenceLabel :> metadata.uid))
            ELSE metadata
    IN  Delete(labelled, VolatileFields)

\* Lines 255-270.
sanitize(metadata) ==
    LET labelled ==
            IF Has(metadata, "uid")
            THEN IF ~Has(metadata, "labels")
                 THEN Put(metadata, "labels", (OldUIDReferenceLabel :> metadata.uid))
                 ELSE Put(metadata, "labels",
                          Put(metadata.labels, OldUIDReferenceLabel, metadata.uid))
            ELSE metadata
    IN  Delete(labelled, VolatileFields)

\* Lines 290-310: the partition an object is placed in.
partitionOf(metadata) ==
    IF ~Has(metadata, "ownerReferences") THEN "owners" ELSE "dependents"

isPrivileged(res) == res.Name = "customresourcedefinitions" \/ res.Name = "namespaces"

-----------------------------------------------------------------------------
(* Encryption gate and persistence writer *)

Dir == [type |-> "dir"]
File(bytes) == [type |-> "file", data |-> bytes]
IsDir(fsIn, path) == path \in DOMAIN fsIn /\ fsIn[path].type = "dir"

EmptyBytes == [kind |-> "empty"]
Marshal(v) == [kind |-> "json", doc |-> v]
TransformToStorage(bytes, aad) == [kind |-> "cipher", doc |-> bytes, aad |-> aad]

\* schema.ParseGroupResource(res.Name + "." + res.Group)
ParseGroupResource(name, group) == [Group |-> group, Resource |-> name]

NoTransformer == "nil"
Lookup(tm, gr) == IF gr \in DOMAIN tm THEN tm[gr] ELSE NoTransformer

backupPath == "/backup"
ownerDirPath == backupPath \o "/owners"
dependentDirPath == backupPath \o "/dependents"
filtersPath == backupPath \o "/filters.json"

createResourceDir(fsIn, path, mkdirOk) ==
    IF path \notin DOMAIN fsIn
    THEN IF mkdirOk THEN [fs |-> Put(fsIn, path, Dir), err |-> "nil"]
         ELSE [fs |-> fsIn, err |-> "error creating temp dir"]
    ELSE [fs |-> fsIn, err |-> "nil"]

\* fault is the step of writeToBackup that fails: "none", "create",
\* "encrypt", "write" or "close".
writeToBackup(fsIn, resource, dirPath, filename, transformer, aad, fault) ==
    LET path == dirPath \o "/" \o filename \o ".json"
        created == Put(fsIn, path, File(EmptyBytes))
        plain == Marshal(resource)
        bytes == IF transformer # NoTransformer
                 THEN Marshal(TransformToStorage(plain, aad))
                 ELSE plain
        written == Put(fsIn, path, File(bytes))
        out(f, c, e) == [fs |-> f, path |-> path, created |-> c, err |-> e]
    IN  IF fault = "create" \/ ~IsDir(fsIn, dirPath)
        THEN out(fsIn, FALSE, "error creating temp file")
        ELSE IF transformer # NoTransformer /\ fault = "encrypt"
        THEN out(created, TRUE, "error converting resource to JSON")
        ELSE IF fault = "write" THEN out(created, TRUE, "error writing JSON to file")
        ELSE IF fault = "close" THEN out(written, TRUE, "error closing file")
        ELSE out(written, TRUE, "nil")

\* One iteration of the loop of writeBackupObjects (lines 245-311) on obj.
\* fault = [stage, op]: the operation that fails and the write it fails in
\* (the write to the privileged directory or the one to the partition).
writeBackupObject(fsIn, obj, res, gv, tm, fault) ==
    LET metadata == obj.metadata
        objName == metadata.name
        sanitized == [obj EXCEPT !.metadata = sanitize(metadata)]
        gr == ParseGroupResource(res.Name, res.Group)
        encryptionTransformer == Lookup(tm, gr)
        additionalAuthenticatedData == objName
        opAt(stage) == IF fault.stage = stage THEN fault.op ELSE "none"
        writeInto(f, dirPath, stage) ==
            LET d == createResourceDir(f, dirPath, opAt(stage) # "mkdir")
            IN  IF d.err # "nil"
                THEN [fs |-> d.fs, path |-> dirPath, created |-> FALSE, err |-> d.err]
                ELSE writeToBackup(d.fs, sanitized, dirPath, objName,
                                   encryptionTransformer, additionalAuthenticatedData,
                                   opAt(stage))
        logOf(w, stage) ==
            [path |-> w.path, partition |-> stage, created |-> w.created, err |-> w.err,
             encrypted |-> encryptionTransformer # NoTransformer]
        first == writeInto(fsIn, backupPath \o "/" \o res.Name, "privileged")
        partition == partitionOf(sanitized.metadata)
        partitionDir ==
            (IF partition = "owners" THEN ownerDirPath ELSE dependentDirPath)
            \o "/" \o res.Name \o "." \o gv.Group \o "#" \o gv.Version
        second == writeInto(IF isPrivileged(res) THEN first.fs ELSE fsIn,
                            partitionDir, "partition")
    IN  IF skipObject(metadata)
        THEN [skipped |-> TRUE, obj |-> obj, fs |-> fsIn, err |-> "nil", writes |-> <<>>]
        ELSE IF isPrivileged(res) /\ first.err # "nil"
        THEN [skipped |-> FALSE, obj |-> sanitized, fs |-> first.fs, err |-> first.err,
              writes |-> <<logOf(first, "privileged")>>]
        ELSE [skipped |-> FALSE, obj |-> sanitized, fs |-> second.fs, err |-> second.err,
              writes |-> (IF isPrivileged(res) THEN <<logOf(first, "privileged")>>
                          ELSE <<>>) \o <<logOf(second, partition)>>]

-----------------------------------------------------------------------------
(* Inputs *)

BackupFilter(apiGroup, kindsRegex, kinds, names, nameRegex, namespaces, nsRegex) ==
    [ApiGroup |-> apiGroup, KindsRegex |-> kindsRegex, Kinds |-> kinds,
     ResourceNames |-> names, ResourceNameRegex |-> nameRegex,
     Namespaces |-> namespaces, NamespaceRegex |-> nsRegex]

FilterChoices ==
    { BackupFilter("v1", ".", <<>>, <<>>, "", <<>>, ""),
      BackupFilter("v1", "^(pods|services)$", <<>>, <<>>, "", <<>>, ""),
      BackupFilter("v1", "^services$", <<>>, <<>>, "", <<>>, "^ns1$"),
      BackupFilter("v1", "^services$", <<>>, <<>>, "^a$", <<>>, "ns"),
      BackupFilter("v1", "^services$", <<"services">>, <<"a">>, "", <<"ns2">>, ""),
      BackupFilter("v1", "^secrets$", <<>>, <<>>, "(", <<>>, ""),
      BackupFilter("v1", "^namespaces$", <<>>, <<>>, "", <<>>, "^ns1$"),
      BackupFilter("v1", "[", <<>>, <<>>, "", <<>>, ""),
      BackupFilter("example.com/v1", ".", <<>>, <<>>, "", <<>>, "") }

Templates == UNION {[1..n -> FilterChoices] : n \in 1..MaxFilters}

TransformerMaps ==
    { EmptyMap,
      (ParseGroupResource("secrets", "") :> "aescbc")
        @@ (ParseGroupResource("namespaces", "") :> "aescbc") }

\* The destination before the first trigger: absent, a regular file, an empty
\* directory, or the tree an earlier backup left.
InitialFileSystems ==
    { EmptyMap,
      (backupPath :> File(Marshal([note |-> "not a backup"]))),
      (backupPath :> Dir),
      (backupPath :> Dir) @@ (ownerDirPath :> Dir) @@ (dependentDirPath :> Dir)
        @@ (filtersPath :> File(Marshal(<<>>)))
        @@ ((ownerDirPath \o "/services.#v1") :> Dir)
        @@ ((ownerDirPath \o "/services.#v1/a.json")
              :> File(Marshal(Meta([name |-> "a", namespace |-> "old"])))) }

WriteFaults ==
    {[stage |-> "none", op |-> "none"]}
    \cup [stage : {"privileged", "partition"},
          op : {"mkdir", "create", "encrypt", "write", "close"}]

-----------------------------------------------------------------------------
(* The handler, step by step *)

NoFilter == BackupFilter("", "", <<>>, <<>>, "", <<>>, "")

Init ==
    /\ pc = "Init"
    /\ run = 1
    /\ fs \in InitialFileSystems
    /\ fs0 = fs
    /\ calls = {}
    /\ transformerMap = EmptyMap
    /\ filters = <<>>
    /\ filters0 = <<>>
    /\ ind = 1
    /\ filter = NoFilter
    /\ resourceList = <<>>
    /\ resIdx = 1
    /\ items = <<>>
    /\ items0 = <<>>
    /\ queue = <<>>
    /\ objIdx = 1
    /\ gatherErr = "none"
    /\ resolved = <<>>
    /\ selected = {}
    /\ writeLog = {}
    /\ origin = EmptyMap
    /\ ret = "pending"

gatherVars == <<filters, filters0, ind, filter, resourceList, resIdx, items, items0,
                queue, objIdx, gatherErr, resolved, selected, writeLog, origin>>

\* rootIsDir with the test of os.Stat's error inverted.
rootIsDirStatFailed(fsIn) == backupPath \notin DOMAIN fsIn

\* Lines 58-59: os.Stat succeeded and the path is a directory.
rootIsDir(fsIn) == IsDir(fsIn, backupPath)

\* Lines 57-61.
StatRoot ==
    /\ pc = "Init"
    /\ IF rootIsDir(fs)
       THEN pc' = "Done" /\ ret' = "nil"
       ELSE pc' = "EnsureLayout" /\ ret' = ret
    /\ UNCHANGED <<run, fs, fs0, calls, transformerMap, gatherVars>>

\* os.Mkdir: fails when the path exists or the file system refuses (ok = FALSE).
Mkdir(fsIn, path, ok) ==
    IF path \in DOMAIN fsIn \/ ~ok
    THEN [fs |-> fsIn, err |-> "error creating temp dir"]
    ELSE [fs |-> Put(fsIn, path, Dir), err |-> "nil"]

\* Lines 62-75.
EnsureLayout ==
    /\ pc = "EnsureLayout"
    /\ \E failAt \in {"none", backupPath, ownerDirPath, dependentDirPath} :
          LET m1 == Mkdir(fs, backupPath, failAt # backupPath)
              m2 == Mkdir(m1.fs, ownerDirPath, failAt # ownerDirPath)
              m3 == Mkdir(m2.fs, dependentDirPath, failAt # dependentDirPath)
              err == IF m1.err # "nil" THEN m1.err
                     ELSE IF m2.err # "nil" THEN m2.err ELSE m3.err
          IN  /\ fs' = (IF m1.err # "nil" THEN m1.fs
                        ELSE IF m2.err # "nil" THEN m2.fs ELSE m3.fs)
              /\ IF err # "nil"
                 THEN pc' = "Done" /\ ret' = err
                 ELSE pc' = "GetConfig" /\ ret' = ret
    /\ UNCHANGED <<run, fs0, calls, transformerMap, gatherVars>>

\* Lines 77-84: the encryption config and its transformers.
GetConfig ==
    /\ pc = "GetConfig"
    /\ calls' = calls \cup {"encryptionConfig"}
    /\ \/ \E err \in {"encryption config not found", "invalid encryption config"} :
             /\ pc' = "Done" /\ ret' = err
             /\ UNCHANGED transformerMap
       \/ \E tm \in TransformerMaps :
             /\ transformerMap' = tm
             /\ pc' = "GetTemplate" /\ ret' = ret
    /\ UNCHANGED <<run, fs, fs0, gatherVars>>

\* Lines 86-90: the template, then the call of gatherResources.
GetTemplate ==
    /\ pc = "GetTemplate"
    /\ calls' = calls \cup {"template"}
    /\ \/ /\ pc' = "Done" /\ ret' = "template not found"
          /\ UNCHANGED <<filters, filters0, ind>>
       \/ \E t \in Templates :
             /\ filters' = t /\ filters0' = t /\ ind' = 1
             /\ pc' = "ForEachFilter" /\ ret' = ret
    /\ UNCHANGED <<run, fs, fs0, transformerMap, filter, resourceList, resIdx, items,
                   items0, queue, objIdx, gatherErr, resolved, selected, writeLog,
                   origin>>

\* gatherResources returns err (line 112, 123, 133) or nil (line 137).
gatherReturns(err) ==
    /\ gatherErr' = err
    /\ pc' = "WriteRealizedFilters"

\* Lines 109-124: one filter is resolved.
Resolve ==
    /\ pc = "ForEachFilter"
    /\ ind <= Len(filters)
    /\ calls' = calls \cup {"discovery"}
    /\ \E discoveryUp \in BOOLEAN :
          LET r == gatherResourcesForGroupVersion(filters[ind], discoveryUp)
              f == resolveKinds(filters[ind], r.resourceList)
              gv == ParseGroupVersion(f.ApiGroup)
          IN  IF r.err # "nil"
              THEN /\ gatherReturns(r.err)
                   /\ UNCHANGED <<filters, filter, resourceList, resIdx, resolved>>
              ELSE /\ filters' = [filters EXCEPT ![ind] = f]
                   /\ filter' = f
                   /\ resolved' = Append(resolved, r.resourceList)
                   /\ IF gv.err # "nil"
                      THEN /\ gatherReturns(gv.err)
                           /\ UNCHANGED <<resourceList, resIdx>>
                      ELSE /\ resourceList' = r.resourceList
                           /\ resIdx' = 1
                           /\ pc' = "ForEachType"
                           /\ UNCHANGED gatherErr
    /\ UNCHANGED <<run, fs, fs0, transformerMap, filters0, ind, items, items0, queue,
                   objIdx, selected, writeLog, origin, ret>>

\* Line 137: every filter was processed.
GatherDone ==
    /\ pc = "ForEachFilter"
    /\ ind > Len(filters)
    /\ gatherReturns("nil")
    /\ UNCHANGED <<run, fs, fs0, calls, transformerMap, filters, filters0, ind, filter,
                   resourceList, resIdx, items, items0, queue, objIdx, resolved,
                   selected, writeLog, origin, ret>>

\* Line 126: the types of this filter are exhausted.
NextFilter ==
    /\ pc = "ForEachType"
    /\ resIdx > Len(resourceList)
    /\ ind' = ind + 1
    /\ pc' = "ForEachFilter"
    /\ UNCHANGED <<run, fs, fs0, calls, transformerMap, filters, filters0, filter,
                   resourceList, resIdx, items, items0, queue, objIdx, gatherErr,
                   resolved, selected, writeLog, origin, ret>>

\* Lines 127-129.
SkipType ==
    /\ pc = "ForEachType"
    /\ resIdx <= Len(resourceList)
    /\ skipBackup(resourceList[resIdx])
    /\ resIdx' = resIdx + 1
    /\ UNCHANGED <<pc, run, fs, fs0, calls, transformerMap, filters, filters0, ind,
                   filter, resourceList, items, items0, queue, objIdx, gatherErr,
                   resolved, selected, writeLog, origin, ret>>

\* Lines 130-134 with gatherObjectsForResource, lines 173-240: the objects of
\* one type are listed and selected.
Select ==
    /\ pc = "ForEachType"
    /\ resIdx <= Len(resourceList)
    /\ ~skipBackup(resourceList[resIdx])
    /\ calls' = calls \cup {"list"}
    /\ \E listUp \in BOOLEAN :
          LET res == resourceList[resIdx]
              gv == ParseGroupVersion(filter.ApiGroup)
              l == List(gv, res, fieldSelectorTerms(res, filter), listUp)
              sel == selectObjects(res, filter, l.Items)
          IN  IF l.err # "nil"
              THEN /\ gatherReturns(l.err)
                   /\ UNCHANGED <<items, items0, queue, objIdx, selected, ret>>
              ELSE /\ selected' = selected \cup
                          {[ind |-> ind, res |-> res, filter |-> filter, fetched |-> l.Items,
                            status |-> sel.status,
                            filteredObjects |-> Pick(l.Items, sel.filteredObjects),
                            filteredNs |-> sel.filteredNs,
                            localNamespaces |-> sel.localNamespaces]}
                   /\ CASE sel.status = "panic" ->
                             /\ pc' = "Done" /\ ret' = "panic"
                             /\ UNCHANGED <<items, items0, queue, objIdx, gatherErr>>
                        [] sel.status = "error" ->
                             /\ gatherReturns("error parsing regexp")
                             /\ UNCHANGED <<items, items0, queue, objIdx, ret>>
                        [] OTHER ->
                             /\ items' = l.Items /\ items0' = l.Items
                             /\ queue' = sel.filteredObjects /\ objIdx' = 1
                             /\ pc' = "ForEachObject"
                             /\ UNCHANGED <<gatherErr, ret>>
    /\ UNCHANGED <<run, fs, fs0, transformerMap, filters, filters0, ind, filter,
                   resourceList, resIdx, resolved, writeLog, origin>>

\* Lines 245-311: one object of filteredObjects is classified, sanitized and written.
WriteObject ==
    /\ pc = "ForEachObject"
    /\ objIdx <= Len(queue)
    /\ \E fault \in WriteFaults :
          LET i == queue[objIdx]
              res == resourceList[resIdx]
              gv == ParseGroupVersion(filter.ApiGroup)
              w == writeBackupObject(fs, items[i], res, gv, transformerMap, fault)
              entry(k) ==
                  [path |-> w.writes[k].path, partition |-> w.writes[k].partition,
                   created |-> w.writes[k].created, err |-> w.writes[k].err,
                   encrypted |-> w.writes[k].encrypted,
                   groupVersion |-> filter.ApiGroup, res |-> res.Name,
                   src |-> items0[i], input |-> items[i],
                   data |-> IF w.writes[k].created THEN w.fs[w.writes[k].path].data
                            ELSE EmptyBytes]
              made == {k \in 1..Len(w.writes) : w.writes[k].created}
              madePaths == {w.writes[k].path : k \in made}
          IN  /\ fs' = w.fs
              /\ items' = [items EXCEPT ![i] = w.obj]
              /\ writeLog' = writeLog \cup {entry(k) : k \in 1..Len(w.writes)}
              /\ origin' = [q \in DOMAIN origin \cup madePaths |->
                              IF q \in madePaths
                              THEN [groupVersion |-> filter.ApiGroup, res |-> res.Name,
                                    src |-> items0[i]]
                              ELSE origin[q]]
              /\ IF w.err # "nil"
                 THEN gatherReturns(w.err) /\ UNCHANGED objIdx
                 ELSE objIdx' = objIdx + 1 /\ UNCHANGED <<pc, gatherErr>>
    /\ UNCHANGED <<run, fs0, calls, transformerMap, filters, filters0, ind, filter,
                   resourceList, resIdx, items0, queue, resolved, selected, ret>>

\* Line 312: writeBackupObjects returns nil; the next type follows.
NextType ==
    /\ pc = "ForEachObject"
    /\ objIdx > Len(queue)
    /\ resIdx' = resIdx + 1
    /\ pc' = "ForEachType"
    /\ UNCHANGED <<run, fs, fs0, calls, transformerMap, filters, filters0, ind, filter,
                   resourceList, items, items0, queue, objIdx, gatherErr, resolved,
                   selected, writeLog, origin, ret>>

\* The value of err at line 105: gatherResources' error (line 90) is
\* overwritten by json.Marshal's (line 92) and that by os.Create's (line 96).
returnedError(gatherError, marshalError, createError) ==
    LET err1 == gatherError
        err2 == marshalError
        err3 == createError
    IN  err3

\* Lines 91-105.
WriteRealizedFilters ==
    /\ pc = "WriteRealizedFilters"
    /\ \E fault \in {"none", "create", "write"} :
          LET bytes == Marshal(filters)
          IN  CASE fault = "create" ->
                     /\ fs' = fs
                     /\ ret' = "error creating filters file"
                [] fault = "write" ->
                     /\ fs' = Put(fs, filtersPath, File(EmptyBytes))
                     /\ ret' = "error writing JSON to filters file"
                [] OTHER ->
                     /\ fs' = Put(fs, filtersPath, File(bytes))
                     /\ ret' = returnedError(gatherErr, "nil", "nil")
    /\ pc' = "Done"
    /\ UNCHANGED <<run, fs0, calls, transformerMap, gatherVars>>

\* The trigger source calls OnBackupChange again for the same backup.
Retrigger ==
    /\ pc = "Done"
    /\ run < MaxRuns
    /\ run' = run + 1
    /\ pc' = "Init"
    /\ fs0' = fs
    /\ calls' = {}
    /\ transformerMap' = EmptyMap
    /\ filters' = <<>> /\ filters0' = <<>> /\ ind' = 1 /\ filter' = NoFilter
    /\ resourceList' = <<>> /\ resIdx' = 1
    /\ items' = <<>> /\ items0' = <<>> /\ queue' = <<>> /\ objIdx' = 1
    /\ gatherErr' = "none" /\ resolved' = <<>> /\ selected' = {}
    /\ writeLog' = {} /\ origin' = EmptyMap
    /\ ret' = "pending"
    /\ UNCHANGED fs

Next ==
    \/ StatRoot
    \/ EnsureLayout
    \/ GetConfig
    \/ GetTemplate
    \/ Resolve
    \/ GatherDone
    \/ NextFilter
    \/ SkipType
    \/ Select
    \/ WriteObject
    \/ NextType
    \/ WriteRealizedFilters
    \/ Retrigger

Spec == Init /\ [][Next]_vars

-----------------------------------------------------------------------------
(* Properties *)

\* The run passed layout creation and gatherResources has returned.
GatherReturned == gatherErr # "none"

\* The filter list this run wrote to filters.json.
FiltersWritten ==
    /\ pc = "Done" /\ ret = "nil" /\ GatherReturned
    /\ filtersPath \in DOMAIN fs
    /\ fs[filtersPath].data.kind = "json"

RealizedFilters == fs[filtersPath].data.doc

\* C1: when a step of the gather pass fails, the caller receives a non-nil
\* error; a nil error is returned only when the whole pass succeeded.
C1_GatherFailureIsReturned ==
    (pc = "Done" /\ GatherReturned /\ gatherErr # "nil") => ret # "nil"

\* C2: a run that finds the snapshot root already a directory returns
\* success, calls no capability and leaves the file system as it found it.
C2_ExistingRootIsNoOp ==
    (pc = "Done" /\ IsDir(fs0, backupPath)) =>
        /\ ret = "nil"
        /\ calls = {}
        /\ fs = fs0

\* A second run, after a first run that created the root and wrote objects.
C2_Witness ==
    /\ pc = "Done" /\ run = 2 /\ ret = "nil"
    /\ IsDir(fs0, backupPath)
    /\ (dependentDirPath \o "/services.#v1/b.json") \in DOMAIN fs0
    /\ filtersPath \in DOMAIN fs0

HasOwners(metadata) ==
    Has(metadata, "ownerReferences") /\ Len(metadata.ownerReferences) > 0

\* C3: an object is written under owners/ when its ownerReferences is absent
\* or empty, and under dependents/ when it has at least one owner reference.
C3_PlacementByNonEmptyOwnerReferences ==
    \A w \in writeLog :
        (w.partition # "privileged" /\ w.created) =>
            w.partition = (IF HasOwners(w.src.metadata) THEN "dependents" ELSE "owners")

Finalized(metadata) ==
    /\ Has(metadata, "deletionTimestamp")
    /\ (~Has(metadata, "finalizers") \/ Len(metadata.finalizers) = 0)

\* C4: no file of the output tree belongs to an object that has a
\* deletionTimestamp and whose finalizers are absent or empty.
C4_NoFileForFinalizedObject ==
    \A path \in DOMAIN origin : ~Finalized(origin[path].src.metadata)

\* The names, in discovery order, of the types of f's group/version that
\* f.KindsRegex matches.
MatchedKinds(f) ==
    LET all == ServerResources(f.ApiGroup)
        Matches(res) == f.KindsRegex = "." \/ res.Name \in RegexLanguage(f.KindsRegex)
        kept == Pick(all, Indices([j \in 1..Len(all) |-> Matches(all[j])]))
    IN  [k \in 1..Len(kept) |-> kept[k].Name]

EligibleKinds(f) ==
    LET all == ServerResources(f.ApiGroup)
        Matches(res) ==
            /\ f.KindsRegex = "." \/ res.Name \in RegexLanguage(f.KindsRegex)
            /\ res.Name \notin {"pods"}
            /\ \E i \in 1..Len(res.Verbs) : res.Verbs[i] = "list"
            /\ \E i \in 1..Len(res.Verbs) : res.Verbs[i] \in {"update", "patch"}
    IN  {all[k].Name : k \in {j \in 1..Len(all) : Matches(all[j])}}

\* C5 as stated: for a filter whose kinds was empty, filters.json lists
\* exactly the matched types that passed the eligibility gate.
C5_KindsAreEligibleTypes ==
    FiltersWritten =>
        \A i \in 1..Len(resolved) :
            Len(filters0[i].Kinds) = 0 =>
                SeqToSet(RealizedFilters[i].Kinds) = EligibleKinds(filters0[i])

\* C5 amended: for a filter whose kinds was empty and that the run resolved,
\* filters.json lists every type the kinds pattern matched, in discovery
\* order, the types the eligibility gate skips included.
C5_KindsAreMatchedTypes ==
    FiltersWritten =>
        \A i \in 1..Len(resolved) :
            Len(filters0[i].Kinds) = 0 =>
                RealizedFilters[i].Kinds = MatchedKinds(filters0[i])

\* filters.json lists pods, which the eligibility gate skipped.
C5_Witness ==
    /\ FiltersWritten
    /\ \E i \in 1..Len(resolved) :
          /\ Len(filters0[i].Kinds) = 0
          /\ filters0[i].KindsRegex = "^(pods|services)$"
          /\ RealizedFilters[i].Kinds = <<"pods", "services">>
          /\ \E w \in writeLog : w.res = "services" /\ w.err = "nil"
          /\ ~ \E w \in writeLog : w.res = "pods"

\* C6: after a successful run every namespace that matched a filter's
\* namespaceRegex is listed in that filter's namespaces in filters.json.
C6_MatchedNamespacesInFiltersJson ==
    (FiltersWritten /\ gatherErr = "nil") =>
        \A sel \in selected :
            (sel.res.Namespaced /\ sel.filter.NamespaceRegex # "") =>
                \A k \in 1..Len(sel.filteredNs) :
                    sel.filteredNs[k] \in SeqToSet(RealizedFilters[sel.ind].Namespaces)

\* C7: for a non-namespaced type the selection completes and is the one the
\* filter without its namespaceRegex gives.
C7_NamespaceRegexIgnoredForClusterScoped ==
    \A sel \in selected :
        ~sel.res.Namespaced =>
            LET plain == selectObjects(sel.res, [sel.filter EXCEPT !.NamespaceRegex = ""],
                                       sel.fetched)
            IN  /\ sel.status = plain.status
                /\ sel.filteredObjects = Pick(sel.fetched, plain.filteredObjects)

\* C8: after a successful pass no two distinct retained objects were written
\* to the same file path.
C8_DistinctObjectsDistinctPaths ==
    (pc = "Done" /\ ret = "nil" /\ gatherErr = "nil") =>
        \A w1, w2 \in writeLog :
            (w1.created /\ w2.created /\ w1.path = w2.path) => w1.src = w2.src

\* The object a file's bytes hold.
Decoded(w) == IF w.encrypted THEN w.data.doc.doc.doc ELSE w.data.doc

ContentWritten(w) == w.created /\ w.data.kind # "empty"

\* C9: every copy written of an object that had uid u carries the label
\* original-uid = u beside the labels the object had, has none of the
\* volatile fields, and is a fixed point of the sanitization.
C9_SanitizedContent ==
    \A w \in writeLog :
        ContentWritten(w) =>
            LET before == w.src.metadata
                after == Decoded(w).metadata
            IN  /\ Has(before, "uid") =>
                      /\ Has(after, "labels")
                      /\ Has(after.labels, OldUIDReferenceLabel)
                      /\ after.labels[OldUIDReferenceLabel] = before.uid
                /\ Has(before, "labels") =>
                      /\ Has(after, "labels")
                      /\ \A k \in DOMAIN before.labels :
                            Has(after.labels, k) /\ after.labels[k] = before.labels[k]
                /\ DOMAIN after \cap {"uid", "resourceVersion", "generation",
                                      "creationTimestamp"} = {}
                /\ \A k \in DOMAIN before \ {"uid", "resourceVersion", "generation",
                                             "creationTimestamp", "labels"} :
                      Has(after, k) /\ after[k] = before[k]
                /\ sanitize(after) = after

\* Copies in a partition and in a privileged directory, of an object that had
\* labels and of one that had none, and a second write of an object the
\* first write had already sanitized.
C9_Witness ==
    /\ \E w \in writeLog :
          /\ ContentWritten(w) /\ w.partition = "privileged" /\ w.encrypted
          /\ Has(w.src.metadata, "uid")
    /\ \E w \in writeLog :
          /\ ContentWritten(w) /\ w.partition = "dependents"
          /\ Has(w.src.metadata, "uid") /\ Has(w.src.metadata, "labels")
    /\ \E w \in writeLog :
          /\ ContentWritten(w) /\ w.partition = "owners"
          /\ Has(w.src.metadata, "uid") /\ ~Has(w.src.metadata, "labels")
          /\ w.input # w.src

\* C10: when the transform of an object fails, no file for the object
\* exists in the output tree.
C10_NoFileBeforeTransform ==
    \A w \in writeLog :
        (w.encrypted /\ w.err = "error converting resource to JSON") =>
            w.path \notin DOMAIN fs

====
